---------------------------- MODULE Spec2Model ----------------------------
(***************************************************************************)
(* Chroma key compositor: the GUI object ChromaKeyApp (chroma_key_gui.py)  *)
(* with its background play cursor, and the compositing routine            *)
(* perform_chroma_key (chroma_key_core.py).                                *)
(*                                                                         *)
(* The specifications share the variables:                                 *)
(*   Spec         the application, each handler call and each worker loop  *)
(*                iteration taken as one step;                             *)
(*   SpecThreads  the UI thread and the export worker thread interleaved   *)
(*                at the level of attribute reads and writes;              *)
(*   SpecCore     the per-frame pixel pipeline on bounded rasters;         *)
(*   SpecPick     the region picker that sets the key color.               *)
(***************************************************************************)
EXTENDS Integers, Sequences, FiniteSets, TLC

VARIABLES
    \* ---- ChromaKeyApp fields (chroma_key_gui.py:59-103)
    fg_open,            \* self.fg_cap is set and isOpened()
    fg_len,             \* number of frames of the foreground capture
    fg_pos,             \* read position of the foreground capture
    bg_image,           \* self.bg_image: "None" or "img"
    bg_is_video,        \* self.bg_is_video
    bg_video_is_reversed, \* the checkbox variable
    reverse_enabled,    \* state of reverse_bg_check: normal (TRUE) / disabled
    bg_total_frames,    \* self.bg_total_frames
    bg_index,           \* self.bg_index, the play cursor
    bg_frames,          \* self.bg_frames
    \* ---- control
    ui_pc,              \* UI thread: "idle", "preview" (blocking loop), or a
                        \* position t_... inside apply_chroma_key (SpecThreads)
    ex_pc,              \* export worker thread position
    frame_count,        \* frames written by the export worker
    pending,            \* update_preview callbacks queued with root.after
    load_status,        \* what the last background load reported
    last,               \* the handler that ran last and what it used
    \* ---- thread-local values (SpecThreads)
    ui_t, ex_t,
    ld,                 \* the background-video load worker thread
    \* ---- compositing pipeline (SpecCore)
    core,
    \* ---- the key color and the region picker (chroma_key_gui.py:66, 80-82)
    pick

guiVars == <<fg_open, fg_len, fg_pos, bg_image, bg_is_video, bg_video_is_reversed,
             reverse_enabled, bg_total_frames, bg_index, bg_frames>>
ctlVars == <<ui_pc, ex_pc, frame_count, pending, load_status, last>>
thrVars == <<ui_t, ex_t, ld>>
vars == <<guiVars, ctlVars, thrVars, core, pick>>

\* ------------------------------------------------------------------ bounds
MaxBgFrames == 3
MaxFgFrames == 2
MaxPending == 1
MaxWritten == 3
\* How far overlapping steps may carry the cursor outside 0..len-1 before the
\* model stops following them.
MaxDrift == 1

\* ------------------------------------------------------------ small helpers
Min(a, b) == IF a < b THEN a ELSE b
Max(a, b) == IF a > b THEN a ELSE b

\* The frames cv2.VideoCapture decodes from a background file of n frames.
DecodedFrames(n) == [i \in 1..n |-> [video |-> n, k |-> i - 1]]

\* The locals of a thread that is not inside apply_chroma_key.
NoThread == [rev |-> FALSE, tmp |-> 0, fg |-> -1]
NoCore == [phase |-> "unused"]
\* The load worker thread when it does not run; temp is len(temp_frames).
NoLoad == [pc |-> "none", temp |-> 0]

\* self.bg_color (R, G, B) and the picker's fields as __init__ leaves them
\* (chroma_key_gui.py:66, 80-82).
InitPick == [bg_color |-> <<0, 255, 0>>, color_picked |-> FALSE,
             selecting_region |-> FALSE, x0 |-> 0, y0 |-> 0, x1 |-> 0, y1 |-> 0]

\* ---------------------------------------------------------------- the cursor
\* apply_chroma_key's test for stepping: self.bg_is_video and self.bg_frames
UsesVideo(is_video, frames) == is_video /\ Len(frames) > 0

StepIndexReverseWrapsToZero(idx, total, rev) ==
    IF rev
    THEN IF idx - 1 < 0 THEN 0 ELSE idx - 1
    ELSE IF idx + 1 >= total THEN 0 ELSE idx + 1

\* The cursor after one step (chroma_key_gui.py:436-443).
StepIndex(idx, total, rev) ==
    IF rev
    THEN IF idx - 1 < 0 THEN total - 1 ELSE idx - 1
    ELSE IF idx + 1 >= total THEN 0 ELSE idx + 1

\* The value standing for "no frame": the read raised IndexError, or the
\* background is not a frame sequence.
IndexError == [video |-> 0, k |-> -1]

\* raw_bg = self.bg_frames[self.bg_index]; Python raises IndexError outside
\* -len..len-1 and counts a negative index from the end.
ReadFrame(frames, idx) ==
    IF 0 <= idx /\ idx < Len(frames) THEN frames[idx + 1]
    ELSE IF idx < 0 /\ -idx <= Len(frames) THEN frames[Len(frames) + idx + 1]
    ELSE IndexError

\* What apply_chroma_key composites the foreground frame with.
\* (chroma_key_gui.py:435-454)
BackgroundUsed(is_video, frames, idx, image) ==
    IF UsesVideo(is_video, frames) THEN [kind |-> "video", frame |-> ReadFrame(frames, idx)]
    ELSE IF image # "None" THEN [kind |-> "image", frame |-> IndexError]
    ELSE [kind |-> "none", frame |-> IndexError]

\* apply_chroma_key run in one piece with play direction rev: the new cursor.
ApplyIndexStaleDirection(rev) ==
    IF UsesVideo(bg_is_video, bg_frames)
    THEN StepIndex(bg_index, bg_total_frames, bg_video_is_reversed)
    ELSE bg_index

ApplyIndexWhateverSource(rev) == StepIndex(bg_index, bg_total_frames, rev)

ApplyIndex(rev) ==
    IF UsesVideo(bg_is_video, bg_frames)
    THEN StepIndex(bg_index, bg_total_frames, rev)
    ELSE bg_index

\* The record kept in last by a handler that composited nothing; decoded is
\* the number of frames a background video load decoded (-1: not a load).
NoStep(op) == [op |-> op, stepped |-> FALSE, fg |-> -1, decoded |-> -1,
               bg |-> [kind |-> "none", frame |-> IndexError]]

\* update_preview (chroma_key_gui.py:419-431) run in one piece by handler op,
\* the checkbox variable being rev when it runs.
UpdatePreview(op, rev) ==
    IF ~fg_open
    THEN /\ UNCHANGED <<fg_pos, bg_index>>
         /\ last' = NoStep(op)
    ELSE IF fg_pos >= fg_len
    THEN /\ fg_pos' = 0
         /\ UNCHANGED bg_index
         /\ last' = NoStep(op)
    ELSE /\ fg_pos' = fg_pos + 1
         /\ bg_index' = ApplyIndex(rev)
         /\ last' = [op |-> op, stepped |-> UsesVideo(bg_is_video, bg_frames),
                     fg |-> fg_pos, decoded |-> -1,
                     bg |-> BackgroundUsed(bg_is_video, bg_frames, ApplyIndex(rev), bg_image)]

\* ===================================================== the pixel pipeline
\* A pixel is <<b, g, r>>, a raster one row of pixels (a sequence).
Width == 2
MaxCalls == 2

\* ------------------------------------------------------ input sets (SpecCore)
Green == <<0, 255, 0>>
Black == <<0, 0, 0>>
YellowGreen == <<0, 255, 100>>
Crimson == <<128, 0, 255>>
Blue == <<255, 0, 0>>
Brick == <<10, 30, 200>>
FramePalette == {Green, Black, YellowGreen, Crimson}
BackgroundPalette == {Blue, Brick}
KeyColors == {Green, Black, Crimson}
Tolerances == {0, 25, 100}
Softnesses == {0, 1}
Spills == {0, 50}
\* <<contrast in percent, brightness>>, within the sliders' ranges.
Identity == <<100, 0>>
Brighter == <<150, 50>>
Darker == <<50, -50>>
\* <<foreground adjustment, background adjustment>>
AdjustmentPairs == {<<Identity, Identity>>, <<Brighter, Darker>>, <<Darker, Brighter>>,
                    <<Darker, Darker>>}
Promotions == {"legacy", "nep50"}

Uniform(p, w) == [i \in 1..w |-> p]
\* A raster of width w with a hard edge after its first pixel.
Edge(a, b, w) == [i \in 1..w |-> IF i = 1 THEN a ELSE b]
\* The rasters of width w tried: every pair of palette colors across the edge
\* (every raster of the palette when w = 2).
Rasters(palette, w) == {Edge(a, b, w) : a \in palette, b \in palette}

\* --------------------------------------------------------- cv2.convertScaleAbs
\* a / b rounded to the nearest integer, halves to the even one (cvRound).
RoundDiv(a, b) ==
    LET q == a \div b
        r == a % b
    IN  IF 2 * r < b THEN q
        ELSE IF 2 * r > b THEN q + 1
        ELSE IF q % 2 = 0 THEN q ELSE q + 1

Abs(x) == IF x < 0 THEN -x ELSE x

Clamp(x, lo, hi) == IF x < lo THEN lo ELSE IF x > hi THEN hi ELSE x

\* cv2.convertScaleAbs on one channel value: saturate_cast<uchar>(|c*alpha + beta|),
\* alpha given in percent.
ConvertScaleAbs(c, pct, beta) == Min(255, RoundDiv(Abs(c * pct + 100 * beta), 100))

AdjustPixel(p, adj) == [ch \in 1..3 |-> ConvertScaleAbs(p[ch], adj[1], adj[2])]

\* cv2.convertScaleAbs(frame, alpha=contrast, beta=brightness) on a raster
\* (chroma_key_gui.py:434, 446, 450).
Adjust(raster, adj) == [i \in 1..Len(raster) |-> AdjustPixel(raster[i], adj)]

\* ------------------------------------------------- cv2.cvtColor(COLOR_BGR2HSV)
\* OpenCV's 8-bit conversion: fixed-point tables with shift 12, hue in 0..179.
SDivTable(i) == IF i = 0 THEN 0 ELSE RoundDiv(255 * 4096, i)
HDivTable180(i) == IF i = 0 THEN 0 ELSE RoundDiv(180 * 4096, 6 * i)

BGR2HSV(p) ==
    LET b == p[1]
        g == p[2]
        r == p[3]
        v == Max(b, Max(g, r))
        vmin == Min(b, Min(g, r))
        diff == v - vmin
        sat == (diff * SDivTable(v) + 2048) \div 4096
        h0 == IF v = r THEN g - b
              ELSE IF v = g THEN b - r + 2 * diff
              ELSE r - g + 4 * diff
        h1 == (h0 * HDivTable180(diff) + 2048) \div 4096
        h == IF h1 < 0 THEN h1 + 180 ELSE h1
    IN  <<h, sat, v>>

\* ------------------------------------------------------------------ the mask
SatValLow == 50

\* target_hsv[0] - tolerance and target_hsv[0] + tolerance: target_hsv[0] is a
\* numpy.uint8 and tolerance a Python int. NumPy before 2.0 promotes the
\* scalar operation to int64; NumPy 2 (NEP 50) keeps uint8 and wraps modulo
\* 2^8. The interpreter's NumPy decides which.
HueMinus(h, tol, promotion) == IF promotion = "nep50" THEN (h - tol) % 256 ELSE h - tol
HuePlus(h, tol, promotion) == IF promotion = "nep50" THEN (h + tol) % 256 ELSE h + tol

\* lower_bound and upper_bound (chroma_key_core.py:58-59)
LowerBound(key, tol, promotion) ==
    <<Max(0, HueMinus(BGR2HSV(key)[1], tol, promotion)), SatValLow, SatValLow>>
UpperBound(key, tol, promotion) ==
    <<Min(180, HuePlus(BGR2HSV(key)[1], tol, promotion)), 255, 255>>

InRangeExclusive(hsv, lo, hi) ==
    IF \A ch \in 1..3 : lo[ch] < hsv[ch] /\ hsv[ch] < hi[ch] THEN 255 ELSE 0

\* cv2.inRange on one pixel: 255 when every channel is within its bounds,
\* ends included.
InRange(hsv, lo, hi) ==
    IF \A ch \in 1..3 : lo[ch] <= hsv[ch] /\ hsv[ch] <= hi[ch] THEN 255 ELSE 0

\* mask (chroma_key_core.py:55-60)
Mask(frame, key, tol, promotion) ==
    [i \in 1..Len(frame) |->
        InRange(BGR2HSV(frame[i]), LowerBound(key, tol, promotion),
                UpperBound(key, tol, promotion))]

\* ------------------------------------------------------------------ the matte
\* blur_size (chroma_key_core.py:63)
BlurSize(softness) == Max(1, softness * 4 + 1)

\* cv2.getGaussianKernel for sigma 0: the fixed kernels of sizes 1 and 5, in
\* sixteenths. (Sizes 9 and up are computed in floating point and are outside
\* Softnesses.)
GaussianKernel(ksize) == IF ksize = 1 THEN <<16>> ELSE <<1, 4, 6, 4, 1>>

\* cv2.BORDER_REFLECT_101: the column that column p of a row of n stands for.
RECURSIVE Reflect101(_, _)
Reflect101(p, n) ==
    IF n = 1 THEN 0
    ELSE IF p < 0 THEN Reflect101(-p, n)
    ELSE IF p >= n THEN Reflect101(2 * n - 2 - p, n)
    ELSE p

RECURSIVE SumTo(_, _)
SumTo(f, n) == IF n = 0 THEN 0 ELSE f[n] + SumTo(f, n - 1)

\* alpha = mask / 255 blurred with cv2.GaussianBlur(alpha, (k, k), 0) on a
\* one-row raster, in sixteenths (chroma_key_core.py:62-64). The vertical
\* pass of a one-row image changes nothing.
GaussianBlur(mask, ksize) ==
    LET n == Len(mask)
        kern == GaussianKernel(ksize)
        rad == (ksize - 1) \div 2
    IN  [i \in 1..n |->
            SumTo([k \in 1..ksize |->
                      kern[k] * (mask[Reflect101(i - 1 + k - 1 - rad, n) + 1] \div 255)],
                  ksize)]

\* ------------------------------------------------------------------ the blend
BlendSwapped(a16, bgp, fgp) == [ch \in 1..3 |-> a16 * fgp[ch] + (16 - a16) * bgp[ch]]

\* combined = alpha_3 * bg_resized + (1 - alpha_3) * frame for one pixel, in
\* sixteenths (chroma_key_core.py:66-69).
Blend(a16, bgp, fgp) == [ch \in 1..3 |-> a16 * bgp[ch] + (16 - a16) * fgp[ch]]

SpillOnMatteOnly(c16, a16, spill) ==
    IF spill > 0 /\ a16 > 0
    THEN [c16 EXCEPT ![2] = Clamp(c16[2] - 16 * spill, 0, 255 * 16)]
    ELSE c16

\* combined[:, :, 1] = np.clip(combined[:, :, 1] - color_spill, 0, 255) for one
\* pixel whose matte value is a16 (chroma_key_core.py:71-72).
Spill(c16, a16, spill) ==
    IF spill > 0
    THEN [c16 EXCEPT ![2] = Clamp(c16[2] - 16 * spill, 0, 255 * 16)]
    ELSE c16

\* np.clip(combined, 0, 255).astype(np.uint8) for one pixel: the cast drops
\* the fraction (chroma_key_core.py:74).
ToUint8(c16) == [ch \in 1..3 |-> Clamp(c16[ch], 0, 255 * 16) \div 16]

\* cv2.resize(bg, (w, h)) on one-row rasters: a raster of the target width is
\* copied, a one-pixel raster is repeated.
Resize(raster, w) == IF Len(raster) = w THEN raster ELSE Uniform(raster[1], w)

\* Lines 55-74 for a foreground raster and a background raster of its size.
Composite(frame, bg, key, tol, softness, spill, promotion) ==
    LET alpha == GaussianBlur(Mask(frame, key, tol, promotion), BlurSize(softness))
    IN  [i \in 1..Len(frame) |->
            ToUint8(Spill(Blend(alpha[i], bg[i], frame[i]), alpha[i], spill))]

\* ------------------------------------------------------- perform_chroma_key
\* A background source: None, an image (raster), or a cv2.VideoCapture with
\* its frames and read position.
NoneSource == [kind |-> "None", img |-> <<>>, frames |-> <<>>, pos |-> 0]
ImageSource(r) == [kind |-> "image", img |-> r, frames |-> <<>>, pos |-> 0]
CaptureSource(fs, pos) == [kind |-> "capture", img |-> <<>>, frames |-> fs, pos |-> pos]

\* bg_source.read(), and the rewind and second read when it fails
\* (chroma_key_core.py:45-48): <<ret, frame, position after>>.
CaptureRead(src) ==
    IF src.pos < Len(src.frames)
    THEN <<TRUE, src.frames[src.pos + 1], src.pos + 1>>
    ELSE IF Len(src.frames) > 0
    THEN <<TRUE, src.frames[1], 1>>
    ELSE <<FALSE, <<>>, 0>>

PerformChromaKeySpillInPlace(frame, src, key, tol, softness, spill, promotion) ==
    IF src.kind = "None"
    THEN [out |-> frame, frame |-> frame, src |-> src]
    ELSE IF src.kind = "capture"
    THEN LET rd == CaptureRead(src)
         IN  IF ~rd[1]
             THEN [out |-> frame, frame |-> frame, src |-> [src EXCEPT !.pos = rd[3]]]
             ELSE [out |-> Composite(frame, Resize(rd[2], Len(frame)), key, tol,
                                     softness, spill, promotion),
                   frame |-> frame, src |-> [src EXCEPT !.pos = rd[3]]]
    ELSE [out |-> Composite(frame, Resize(src.img, Len(frame)), key, tol,
                            softness, spill, promotion),
          frame |-> IF spill > 0
                    THEN [i \in 1..Len(frame) |->
                             [frame[i] EXCEPT ![2] = Clamp(frame[i][2] - spill, 0, 255)]]
                    ELSE frame,
          src |-> src]

\* perform_chroma_key (chroma_key_core.py:18-74); bg_is_video is the kind of
\* the source. The result, and the arguments as the call leaves them.
PerformChromaKey(frame, src, key, tol, softness, spill, promotion) ==
    IF src.kind = "None"
    THEN [out |-> frame, frame |-> frame, src |-> src]
    ELSE IF src.kind = "capture"
    THEN LET rd == CaptureRead(src)
         IN  IF ~rd[1]
             THEN [out |-> frame, frame |-> frame, src |-> [src EXCEPT !.pos = rd[3]]]
             ELSE [out |-> Composite(frame, Resize(rd[2], Len(frame)), key, tol,
                                     softness, spill, promotion),
                   frame |-> frame, src |-> [src EXCEPT !.pos = rd[3]]]
    ELSE [out |-> Composite(frame, Resize(src.img, Len(frame)), key, tol,
                            softness, spill, promotion),
          frame |-> frame, src |-> src]

\* ------------------------------------------------------------------- Init
Init ==
    /\ fg_open = FALSE /\ fg_len = 0 /\ fg_pos = 0
    /\ bg_image = "None"
    /\ bg_is_video = FALSE
    /\ bg_video_is_reversed = FALSE
    /\ reverse_enabled = FALSE
    /\ bg_total_frames = 0 /\ bg_index = 0 /\ bg_frames = <<>>
    /\ ui_pc = "idle" /\ ex_pc = "none" /\ frame_count = 0
    /\ pending = 0 /\ load_status = "none"
    /\ last = NoStep("init")
    /\ ui_t = NoThread /\ ex_t = NoThread /\ ld = NoLoad
    /\ core = NoCore
    /\ pick = InitPick

\* ------------------------------------------------- Spec: handler-level steps
\* load_fg_video and its worker (chroma_key_gui.py:244-259). A capture that
\* cannot be opened leaves the fields alone.
LoadFgVideo ==
    /\ ui_pc = "idle" /\ ex_pc = "none"
    /\ \E m \in 0..MaxFgFrames :
         IF m = 0
         THEN UNCHANGED <<fg_open, fg_len, fg_pos, pending>>
         ELSE /\ pending < MaxPending
              /\ fg_open' = TRUE /\ fg_len' = m /\ fg_pos' = 0
              /\ pending' = pending + 1
    /\ last' = NoStep("load_fg")
    /\ UNCHANGED <<bg_image, bg_is_video, bg_video_is_reversed, reverse_enabled,
                   bg_total_frames, bg_index, bg_frames>>
    /\ UNCHANGED <<ui_pc, ex_pc, frame_count, load_status, thrVars, core, pick>>

\* A callback queued with self.root.after(0, self.update_preview).
RunPending ==
    /\ ui_pc = "idle" /\ pending > 0
    /\ pending' = pending - 1
    /\ UpdatePreview("after", bg_video_is_reversed)
    /\ UNCHANGED <<fg_open, fg_len, bg_image, bg_is_video, bg_video_is_reversed,
                   reverse_enabled, bg_total_frames, bg_frames>>
    /\ UNCHANGED <<ui_pc, ex_pc, frame_count, load_status, thrVars, core, pick>>

HasNoValidFramesNever(n) == n < 0

\* len(temp_frames) < 1 (chroma_key_gui.py:356)
HasNoValidFrames(n) == n < 1

\* load_background_video and _load_background_video_worker
\* (chroma_key_gui.py:335-367), the worker run in one piece; n is the number
\* of frames the file decodes to.
LoadBackgroundVideo ==
    /\ ui_pc = "idle"
    /\ \E n \in 0..MaxBgFrames :
         IF HasNoValidFrames(n)
         THEN /\ load_status' = "fail"
              /\ reverse_enabled' = FALSE
              /\ last' = [NoStep("load_bg_video") EXCEPT !.decoded = n]
              /\ UNCHANGED <<bg_frames, bg_total_frames, bg_index, bg_is_video, pending>>
         ELSE /\ pending < MaxPending
              /\ bg_frames' = DecodedFrames(n)
              /\ bg_total_frames' = Len(DecodedFrames(n))
              /\ bg_index' = 0
              /\ bg_is_video' = TRUE
              /\ reverse_enabled' = TRUE
              /\ load_status' = "ok"
              /\ pending' = pending + 1
              /\ last' = [NoStep("load_bg_video") EXCEPT !.decoded = n]
    /\ UNCHANGED <<fg_open, fg_len, fg_pos, bg_image, bg_video_is_reversed>>
    /\ UNCHANGED <<ui_pc, ex_pc, frame_count, thrVars, core, pick>>

\* load_bg_image (chroma_key_gui.py:369-383) with a readable image: the flag,
\* the image, the checkbox, then update_preview().
LoadBgImage ==
    /\ ui_pc = "idle"
    /\ bg_is_video' = FALSE
    /\ bg_image' = "img"
    /\ reverse_enabled' = FALSE
    /\ IF ~fg_open
       THEN /\ UNCHANGED <<fg_pos, bg_index>>
            /\ last' = NoStep("load_bg_image")
       ELSE IF fg_pos >= fg_len
       THEN /\ fg_pos' = 0
            /\ UNCHANGED bg_index
            /\ last' = NoStep("load_bg_image")
       ELSE /\ fg_pos' = fg_pos + 1
            /\ UNCHANGED bg_index
            /\ last' = [op |-> "load_bg_image", stepped |-> FALSE, fg |-> fg_pos, decoded |-> -1,
                        bg |-> BackgroundUsed(FALSE, bg_frames, bg_index, "img")]
    /\ UNCHANGED <<fg_open, fg_len, bg_video_is_reversed, bg_total_frames, bg_frames>>
    /\ UNCHANGED <<ui_pc, ex_pc, frame_count, pending, load_status, thrVars, core, pick>>

\* load_bg_image when cv2.imread returns None (chroma_key_gui.py:375-377).
LoadBgImageFails ==
    /\ ui_pc = "idle"
    /\ reverse_enabled' = FALSE
    /\ last' = NoStep("load_bg_image_failed")
    /\ UNCHANGED <<fg_open, fg_len, fg_pos, bg_image, bg_is_video, bg_video_is_reversed,
                   bg_total_frames, bg_index, bg_frames>>
    /\ UNCHANGED <<ui_pc, ex_pc, frame_count, pending, load_status, thrVars, core, pick>>

\* Any of the seven slider callbacks (chroma_key_gui.py:388-414): store the
\* value, then update_preview().
SliderEvent ==
    /\ ui_pc = "idle"
    /\ UpdatePreview("slider", bg_video_is_reversed)
    /\ UNCHANGED <<fg_open, fg_len, bg_image, bg_is_video, bg_video_is_reversed,
                   reverse_enabled, bg_total_frames, bg_frames>>
    /\ UNCHANGED <<ui_pc, ex_pc, frame_count, pending, load_status, thrVars, core, pick>>

\* A click on the "Reverse Background Playback" checkbox
\* (chroma_key_gui.py:151): Tk flips the variable, then runs the command,
\* update_preview.
ToggleReverse ==
    /\ ui_pc = "idle"
    /\ reverse_enabled
    /\ bg_video_is_reversed' = ~bg_video_is_reversed
    /\ UpdatePreview("toggle", ~bg_video_is_reversed)
    /\ UNCHANGED <<fg_open, fg_len, bg_image, bg_is_video,
                   reverse_enabled, bg_total_frames, bg_frames>>
    /\ UNCHANGED <<ui_pc, ex_pc, frame_count, pending, load_status, thrVars, core, pick>>

\* The guard shared by preview_composited_video and export_composited_video
\* (chroma_key_gui.py:491, 518).
HasVideoAndBackground == fg_open /\ (bg_image # "None" \/ Len(bg_frames) > 0)

\* The cursor preview_composited_video starts from (chroma_key_gui.py:501-504).
PreviewStartIndex(rev, total) == IF ~rev THEN 0 ELSE total - 1

\* preview_composited_video up to its loop (chroma_key_gui.py:487-504).
PreviewStart ==
    /\ ui_pc = "idle"
    /\ HasVideoAndBackground
    /\ fg_pos' = 0
    /\ bg_index' = PreviewStartIndex(bg_video_is_reversed, bg_total_frames)
    /\ ui_pc' = "preview"
    /\ last' = NoStep("preview_start")
    /\ UNCHANGED <<fg_open, fg_len, bg_image, bg_is_video, bg_video_is_reversed,
                   reverse_enabled, bg_total_frames, bg_frames>>
    /\ UNCHANGED <<ex_pc, frame_count, pending, load_status, thrVars, core, pick>>

\* One iteration of the preview loop (chroma_key_gui.py:505-514); esc is
\* whether the key read by waitKey is 27.
PreviewStep ==
    /\ ui_pc = "preview"
    /\ IF fg_pos >= fg_len
       THEN /\ ui_pc' = "idle"
            /\ last' = NoStep("preview_end")
            /\ UNCHANGED <<fg_pos, bg_index>>
       ELSE /\ fg_pos' = fg_pos + 1
            /\ bg_index' = ApplyIndex(bg_video_is_reversed)
            /\ last' = [op |-> "preview", stepped |-> UsesVideo(bg_is_video, bg_frames),
                        fg |-> fg_pos, decoded |-> -1,
                        bg |-> BackgroundUsed(bg_is_video, bg_frames,
                                              ApplyIndex(bg_video_is_reversed), bg_image)]
            /\ \E esc \in BOOLEAN : ui_pc' = IF esc THEN "idle" ELSE "preview"
    /\ UNCHANGED <<fg_open, fg_len, bg_image, bg_is_video, bg_video_is_reversed,
                   reverse_enabled, bg_total_frames, bg_frames>>
    /\ UNCHANGED <<ex_pc, frame_count, pending, load_status, thrVars, core, pick>>

\* export_composited_video (chroma_key_gui.py:517-525): starts the worker.
ExportStart ==
    /\ ui_pc = "idle" /\ ex_pc = "none"
    /\ HasVideoAndBackground
    /\ ex_pc' = "init"
    /\ last' = NoStep("export_start")
    /\ UNCHANGED <<guiVars, ui_pc, frame_count, pending, load_status, thrVars, core, pick>>

\* _save_video_worker up to its loop (chroma_key_gui.py:527-540).
ExportInit ==
    /\ ex_pc = "init"
    /\ fg_pos' = 0
    /\ frame_count' = 0
    /\ bg_index' = 0
    /\ ex_pc' = "loop"
    /\ last' = NoStep("export_init")
    /\ UNCHANGED <<fg_open, fg_len, bg_image, bg_is_video, bg_video_is_reversed,
                   reverse_enabled, bg_total_frames, bg_frames>>
    /\ UNCHANGED <<ui_pc, pending, load_status, thrVars, core, pick>>

\* One iteration of the export loop (chroma_key_gui.py:541-547), then
\* lines 548-550 when the read fails.
ExportStep ==
    /\ ex_pc = "loop"
    /\ IF fg_pos >= fg_len
       THEN /\ ex_pc' = "none"
            /\ fg_pos' = 0
            /\ last' = NoStep("export_end")
            /\ UNCHANGED <<bg_index, frame_count>>
       ELSE /\ frame_count < MaxWritten
            /\ fg_pos' = fg_pos + 1
            /\ bg_index' = ApplyIndex(bg_video_is_reversed)
            /\ frame_count' = frame_count + 1
            /\ ex_pc' = "loop"
            /\ last' = [op |-> "export", stepped |-> UsesVideo(bg_is_video, bg_frames),
                        fg |-> fg_pos, decoded |-> -1,
                        bg |-> BackgroundUsed(bg_is_video, bg_frames,
                                              ApplyIndex(bg_video_is_reversed), bg_image)]
    /\ UNCHANGED <<fg_open, fg_len, bg_image, bg_is_video, bg_video_is_reversed,
                   reverse_enabled, bg_total_frames, bg_frames>>
    /\ UNCHANGED <<ui_pc, pending, load_status, thrVars, core, pick>>

Next ==
    \/ LoadFgVideo
    \/ RunPending
    \/ LoadBackgroundVideo
    \/ LoadBgImage
    \/ LoadBgImageFails
    \/ SliderEvent
    \/ ToggleReverse
    \/ PreviewStart
    \/ PreviewStep
    \/ ExportStart
    \/ ExportInit
    \/ ExportStep

Spec == Init /\ [][Next]_vars

\* ------------------------------------- SpecThreads: reads and writes as steps
\* The positions of a thread inside the cursor step of apply_chroma_key
\* (chroma_key_gui.py:436-445).
StepPcs == {"t_dir", "t_load", "t_store", "t_check", "t_wrap", "t_read"}
InStep(pc) == pc \in StepPcs
InApply(pc) == pc = "t_begin" \/ InStep(pc)

\* One read or write of apply_chroma_key by a thread at position pc with
\* locals t: its next position, its locals, the cursor, and the background it
\* ends with.
MicroStep(pc, t) ==
    LET same == [pc |-> pc, t |-> t, idx |-> bg_index,
                 bg |-> [kind |-> "none", frame |-> IndexError]]
    IN  CASE pc = "t_begin" ->      \* if self.bg_is_video and self.bg_frames
               IF UsesVideo(bg_is_video, bg_frames)
               THEN [same EXCEPT !.pc = "t_dir"]
               ELSE [same EXCEPT !.pc = "t_done",
                                 !.bg = BackgroundUsed(bg_is_video, bg_frames, bg_index, bg_image)]
          [] pc = "t_dir" ->        \* if self.bg_video_is_reversed.get()
               [same EXCEPT !.pc = "t_load", !.t = [t EXCEPT !.rev = bg_video_is_reversed]]
          [] pc = "t_load" ->       \* self.bg_index -= 1 / += 1: the read
               [same EXCEPT !.pc = "t_store", !.t = [t EXCEPT !.tmp = bg_index]]
          [] pc = "t_store" ->      \* ... and the write
               [same EXCEPT !.pc = "t_check",
                            !.idx = IF t.rev THEN t.tmp - 1 ELSE t.tmp + 1]
          [] pc = "t_check" ->      \* if self.bg_index < 0 / >= self.bg_total_frames
               [same EXCEPT !.pc = IF t.rev
                                   THEN IF bg_index < 0 THEN "t_wrap" ELSE "t_read"
                                   ELSE IF bg_index >= bg_total_frames THEN "t_wrap"
                                        ELSE "t_read"]
          [] pc = "t_wrap" ->       \* self.bg_index = self.bg_total_frames - 1 / 0
               [same EXCEPT !.pc = "t_read",
                            !.idx = IF t.rev THEN bg_total_frames - 1 ELSE 0]
          [] pc = "t_read" ->       \* raw_bg = self.bg_frames[self.bg_index]
               [same EXCEPT !.pc = "t_done",
                            !.bg = [kind |-> "video", frame |-> ReadFrame(bg_frames, bg_index)]]

\* update_preview up to its call of apply_chroma_key (chroma_key_gui.py:424-430),
\* started by handler op on the UI thread.
UiBegin(op) ==
    IF ~fg_open
    THEN /\ last' = NoStep(op)
         /\ UNCHANGED <<fg_pos, ui_pc, ui_t>>
    ELSE IF fg_pos >= fg_len
    THEN /\ fg_pos' = 0
         /\ last' = NoStep(op)
         /\ UNCHANGED <<ui_pc, ui_t>>
    ELSE /\ fg_pos' = fg_pos + 1
         /\ ui_pc' = "t_begin"
         /\ ui_t' = [NoThread EXCEPT !.fg = fg_pos]
         /\ UNCHANGED last

\* A slider callback starts update_preview (chroma_key_gui.py:388-414).
T_SliderEvent ==
    /\ ui_pc = "idle"
    /\ UiBegin("slider")
    /\ UNCHANGED <<fg_open, fg_len, bg_image, bg_is_video, bg_video_is_reversed,
                   reverse_enabled, bg_total_frames, bg_index, bg_frames>>
    /\ UNCHANGED <<ex_pc, frame_count, pending, load_status, ex_t, ld, core, pick>>

\* A click on the Reverse checkbox: the variable flips and update_preview
\* starts (chroma_key_gui.py:151).
T_ToggleReverse ==
    /\ ui_pc = "idle"
    /\ reverse_enabled
    /\ bg_video_is_reversed' = ~bg_video_is_reversed
    /\ UiBegin("toggle")
    /\ UNCHANGED <<fg_open, fg_len, bg_image, bg_is_video,
                   reverse_enabled, bg_total_frames, bg_index, bg_frames>>
    /\ UNCHANGED <<ex_pc, frame_count, pending, load_status, ex_t, ld, core, pick>>

\* A queued root.after(0, self.update_preview) starts.
T_RunPending ==
    /\ ui_pc = "idle" /\ pending > 0
    /\ pending' = pending - 1
    /\ UiBegin("after")
    /\ UNCHANGED <<fg_open, fg_len, bg_image, bg_is_video, bg_video_is_reversed,
                   reverse_enabled, bg_total_frames, bg_index, bg_frames>>
    /\ UNCHANGED <<ex_pc, frame_count, load_status, ex_t, ld, core, pick>>

\* The cursor values the model follows.
WithinDrift(idx) == -MaxDrift <= idx /\ idx <= Len(bg_frames) - 1 + MaxDrift

\* The UI thread's next read or write inside apply_chroma_key; an IndexError
\* ends the callback (Tk reports it and goes on).
T_UiStep ==
    /\ InApply(ui_pc)
    /\ LET r == MicroStep(ui_pc, ui_t)
       IN  /\ WithinDrift(r.idx) \/ r.idx = bg_index
           /\ bg_index' = r.idx
           /\ IF r.pc = "t_done"
              THEN /\ ui_pc' = "idle"
                   /\ ui_t' = NoThread
                   /\ last' = [op |-> "update_preview", stepped |-> r.bg.kind = "video",
                               fg |-> ui_t.fg, decoded |-> -1, bg |-> r.bg]
              ELSE /\ ui_pc' = r.pc
                   /\ ui_t' = r.t
                   /\ UNCHANGED last
    /\ UNCHANGED <<fg_open, fg_len, fg_pos, bg_image, bg_is_video, bg_video_is_reversed,
                   reverse_enabled, bg_total_frames, bg_frames>>
    /\ UNCHANGED <<ex_pc, frame_count, pending, load_status, ex_t, ld, core, pick>>

\* ret, frame = cap.read() of the export loop, and lines 548-550 when it
\* fails (chroma_key_gui.py:541-550).
T_ExportRead ==
    /\ ex_pc = "loop"
    /\ IF fg_pos >= fg_len
       THEN /\ ex_pc' = "none"
            /\ fg_pos' = 0
            /\ last' = NoStep("export_end")
            /\ UNCHANGED ex_t
       ELSE /\ frame_count < MaxWritten
            /\ fg_pos' = fg_pos + 1
            /\ ex_pc' = "t_begin"
            /\ ex_t' = [NoThread EXCEPT !.fg = fg_pos]
            /\ UNCHANGED last
    /\ UNCHANGED <<fg_open, fg_len, bg_image, bg_is_video, bg_video_is_reversed,
                   reverse_enabled, bg_total_frames, bg_index, bg_frames>>
    /\ UNCHANGED <<ui_pc, frame_count, pending, load_status, ui_t, ld, core, pick>>

\* The export thread's next read or write inside apply_chroma_key, then
\* writer.write and frame_count += 1 (chroma_key_gui.py:545-547). Tk hands
\* the worker's bg_video_is_reversed.get() to the UI thread, which serves it
\* between two handlers. An IndexError ends the worker thread.
T_ExportStep ==
    /\ InApply(ex_pc)
    /\ ex_pc = "t_dir" => ui_pc = "idle"
    /\ LET r == MicroStep(ex_pc, ex_t)
       IN  /\ WithinDrift(r.idx) \/ r.idx = bg_index
           /\ bg_index' = r.idx
           /\ IF r.pc = "t_done"
              THEN /\ ex_pc' = IF r.bg.kind = "video" /\ r.bg.frame = IndexError
                               THEN "crashed" ELSE "loop"
                   /\ frame_count' = IF r.bg.kind = "video" /\ r.bg.frame = IndexError
                                     THEN frame_count ELSE frame_count + 1
                   /\ ex_t' = NoThread
                   /\ last' = [op |-> "export", stepped |-> r.bg.kind = "video",
                               fg |-> ex_t.fg, decoded |-> -1, bg |-> r.bg]
              ELSE /\ ex_pc' = r.pc
                   /\ ex_t' = r.t
                   /\ UNCHANGED <<frame_count, last>>
    /\ UNCHANGED <<fg_open, fg_len, fg_pos, bg_image, bg_is_video, bg_video_is_reversed,
                   reverse_enabled, bg_total_frames, bg_frames>>
    /\ UNCHANGED <<ui_pc, pending, load_status, ui_t, ld, core, pick>>

NextThreads ==
    \/ LoadFgVideo
    \/ LoadBackgroundVideo
    \/ T_SliderEvent
    \/ T_ToggleReverse
    \/ T_RunPending
    \/ T_UiStep
    \/ ExportStart
    \/ ExportInit
    \/ T_ExportRead
    \/ T_ExportStep

SpecThreads == Init /\ [][NextThreads]_vars

\* ------------------------------------------------ SpecCore: one call at a time
\* The background sources the calls are tried on.
Captures ==
    {CaptureSource(<<>>, 0),
     CaptureSource(<<Uniform(Blue, Width), Uniform(Brick, Width)>>, 0),
     CaptureSource(<<Uniform(Blue, Width), Uniform(Brick, Width)>>, 2)}
Sources ==
    {NoneSource}
    \cup {ImageSource(r) : r \in Rasters(BackgroundPalette, Width)}
    \cup {ImageSource(<<Brick>>)}
    \cup Captures

\* Whether a call with source src composites (it does not when there is no
\* source or the capture yields no frame).
Composites(src) == src.kind = "image" \/ (src.kind = "capture" /\ Len(src.frames) > 0)

\* The raster perform_chroma_key blends in for source src and a frame of width w.
BackgroundRaster(src, w) ==
    IF src.kind = "image" THEN Resize(src.img, w)
    ELSE IF Composites(src) THEN Resize(CaptureRead(src)[2], w)
    ELSE <<>>

InitCore ==
    /\ fg_open = FALSE /\ fg_len = 0 /\ fg_pos = 0
    /\ bg_image = "None"
    /\ bg_is_video = FALSE
    /\ bg_video_is_reversed = FALSE
    /\ reverse_enabled = FALSE
    /\ bg_total_frames = 0 /\ bg_index = 0 /\ bg_frames = <<>>
    /\ ui_pc = "idle" /\ ex_pc = "none" /\ frame_count = 0
    /\ pending = 0 /\ load_status = "none"
    /\ last = NoStep("init")
    /\ ui_t = NoThread /\ ex_t = NoThread /\ ld = NoLoad
    /\ pick = InitPick
    /\ \E promotion \in Promotions, frame \in Rasters(FramePalette, Width), src \in Sources,
          key \in KeyColors, tol \in Tolerances, softness \in Softnesses, spill \in Spills :
         core = [phase |-> "ready", promotion |-> promotion, frame |-> frame, src |-> src,
                 key |-> key, tol |-> tol, softness |-> softness, spill |-> spill,
                 fg_adj |-> Identity, bg_adj |-> Identity,
                 fg_in |-> <<>>, bg_in |-> <<>>, mask |-> <<>>, out |-> <<>>,
                 composited |-> FALSE, calls |-> 0]

\* A direct call perform_chroma_key(frame, bg_source, bg_is_video, key, ...)
\* (chroma_key_core.py:18-74), possibly repeated with the same arguments.
CallPerformChromaKey ==
    /\ core.phase \in {"ready", "called"}
    /\ core.calls < MaxCalls
    /\ LET r == PerformChromaKey(core.frame, core.src, core.key, core.tol,
                                 core.softness, core.spill, core.promotion)
       IN  core' = [core EXCEPT !.phase = "called",
                                !.frame = r.frame,
                                !.src = r.src,
                                !.out = r.out,
                                !.fg_in = core.frame,
                                !.bg_in = BackgroundRaster(core.src, Len(core.frame)),
                                !.mask = IF Composites(core.src)
                                         THEN Mask(core.frame, core.key, core.tol, core.promotion)
                                         ELSE <<>>,
                                !.composited = Composites(core.src),
                                !.calls = core.calls + 1]
    /\ UNCHANGED <<guiVars, ctlVars, thrVars, pick>>

\* apply_chroma_key on a static image or no background
\* (chroma_key_gui.py:433-465): both rasters adjusted, then the call.
ApplyChromaKey ==
    /\ core.phase = "ready"
    /\ core.src.kind \in {"None", "image"}
    /\ \E adj \in AdjustmentPairs :
         LET fa == adj[1]
             ba == adj[2]
             adjusted_foreground == Adjust(core.frame, fa)
             adjusted_bg == IF core.src.kind = "image" THEN Adjust(core.src.img, ba) ELSE <<>>
             r == PerformChromaKey(adjusted_foreground, ImageSource(adjusted_bg), core.key,
                                   core.tol, core.softness, core.spill, core.promotion)
         IN  core' = [core EXCEPT !.phase = "applied",
                                  !.fg_adj = fa,
                                  !.bg_adj = IF core.src.kind = "image" THEN ba ELSE Identity,
                                  !.fg_in = adjusted_foreground,
                                  !.bg_in = IF core.src.kind = "image"
                                            THEN Resize(adjusted_bg, Len(core.frame)) ELSE <<>>,
                                  !.mask = IF core.src.kind = "image"
                                           THEN Mask(adjusted_foreground, core.key, core.tol,
                                                     core.promotion)
                                           ELSE <<>>,
                                  !.out = IF core.src.kind = "image" THEN r.out
                                          ELSE adjusted_foreground,
                                  !.composited = (core.src.kind = "image")]
    /\ UNCHANGED <<guiVars, ctlVars, thrVars, pick>>

NextCore == CallPerformChromaKey \/ ApplyChromaKey

SpecCore == InitCore /\ [][NextCore]_vars

\* ------------------------------------------------ SpecPick: the region picker
\* Foreground frames are PickSize pixels wide and one row high; the mouse
\* reports columns from one left of the frame to its right edge and rows from
\* the top edge to the bottom edge.
PickSize == 2
MouseColumns == (-1)..PickSize
FrameRows == {0}
MouseRows == FrameRows \cup {Cardinality(FrameRows)}

\* The pixel (B, G, R) of foreground frame k at column x, row y.
FgPixel(k, x, y) ==
    <<(50 + 41 * x + 7 * k) % 256, (90 + 25 * y + 3 * k) % 256,
      (201 + 13 * x * y + 100 * k) % 256>>

\* Where a Python slice bound a lands on an axis of length n.
SliceBound(a, n) == IF a < 0 THEN Max(a + n, 0) ELSE Min(a, n)
\* The indices of the slice a:b on an axis of length n.
SliceIndices(a, b, n) == {i \in 0..(n - 1) : SliceBound(a, n) <= i /\ i < SliceBound(b, n)}

\* roi = frame[y0:y1, x0:x1]: its cells as <<column, row>>.
Roi(x0, x1, y0, y1) ==
    SliceIndices(x0, x1, PickSize) \X SliceIndices(y0, y1, Cardinality(FrameRows))

RECURSIVE ChannelSum(_, _, _)
ChannelSum(k, cells, ch) ==
    IF cells = {} THEN 0
    ELSE LET c == CHOOSE c \in cells : TRUE
         IN  FgPixel(k, c[1], c[2])[ch] + ChannelSum(k, cells \ {c}, ch)

\* int(np.mean(roi[:, :, ch])) for a roi that is not empty.
ChannelMean(k, cells, ch) == ChannelSum(k, cells, ch) \div Cardinality(cells)

ValidRegionWhateverHeight(ret, x0, x1, y0, y1) == ret /\ (x1 > x0)

\* if ret and (x1 > x0) and (y1 > y0)   (chroma_key_gui.py:302)
ValidRegion(ret, x0, x1, y0, y1) == ret /\ (x1 > x0) /\ (y1 > y0)

\* pick_color_from_video up to its loop (chroma_key_gui.py:261-271).
PickColorFromVideo ==
    /\ ui_pc = "idle"
    /\ IF ~fg_open
       THEN /\ last' = NoStep("pick_refused")
            /\ UNCHANGED <<fg_pos, pick, ui_pc>>
       ELSE /\ fg_pos' = 0
            /\ pick' = [InitPick EXCEPT !.bg_color = pick.bg_color]
            /\ ui_pc' = "pick_read"
            /\ last' = NoStep("pick_start")
    /\ UNCHANGED <<fg_open, fg_len, bg_image, bg_is_video, bg_video_is_reversed,
                   reverse_enabled, bg_total_frames, bg_index, bg_frames>>
    /\ UNCHANGED <<ex_pc, frame_count, pending, load_status, thrVars, core>>

\* The head of the picker's loop (chroma_key_gui.py:274-281): read a frame,
\* rewind and retry at the end of the video, else show it.
PickRead ==
    /\ ui_pc = "pick_read"
    /\ IF fg_pos >= fg_len
       THEN fg_pos' = 0 /\ UNCHANGED ui_pc
       ELSE fg_pos' = fg_pos + 1 /\ ui_pc' = "pick_wait"
    /\ last' = NoStep("pick_read")
    /\ UNCHANGED <<fg_open, fg_len, bg_image, bg_is_video, bg_video_is_reversed,
                   reverse_enabled, bg_total_frames, bg_index, bg_frames>>
    /\ UNCHANGED <<ex_pc, frame_count, pending, load_status, thrVars, core, pick>>

\* _pick_color_callback on EVENT_LBUTTONDOWN (chroma_key_gui.py:290-293),
\* dispatched inside cv2.waitKey.
LButtonDown ==
    /\ ui_pc = "pick_wait"
    /\ \E x \in MouseColumns, y \in MouseRows :
         pick' = [pick EXCEPT !.selecting_region = TRUE,
                              !.x0 = x, !.y0 = y, !.x1 = x, !.y1 = y]
    /\ last' = NoStep("pick_down")
    /\ UNCHANGED <<guiVars, ui_pc, ex_pc, frame_count, pending, load_status, thrVars, core>>

\* _pick_color_callback on EVENT_MOUSEMOVE (chroma_key_gui.py:294-295).
MouseMove ==
    /\ ui_pc = "pick_wait"
    /\ \E x \in MouseColumns, y \in MouseRows :
         pick' = IF pick.selecting_region
                 THEN [pick EXCEPT !.x1 = x, !.y1 = y]
                 ELSE pick
    /\ last' = NoStep("pick_move")
    /\ UNCHANGED <<guiVars, ui_pc, ex_pc, frame_count, pending, load_status, thrVars, core>>

\* _pick_color_callback on EVENT_LBUTTONUP (chroma_key_gui.py:296-309). The
\* mean of an empty roi is nan and int(nan) raises ValueError, which ends the
\* callback before lines 307 and 309.
LButtonUp ==
    /\ ui_pc = "pick_wait"
    /\ \E x \in MouseColumns, y \in MouseRows :
         LET x0 == Min(pick.x0, x)
             x1 == Max(pick.x0, x)
             y0 == Min(pick.y0, y)
             y1 == Max(pick.y0, y)
             ret == fg_pos < fg_len
             cells == Roi(x0, x1, y0, y1)
             released == [pick EXCEPT !.selecting_region = FALSE, !.x1 = x, !.y1 = y]
         IN  /\ fg_pos' = IF ret THEN fg_pos + 1 ELSE fg_pos
             /\ pick' = IF ValidRegion(ret, x0, x1, y0, y1)
                        THEN IF cells = {}
                             THEN released
                             ELSE [released EXCEPT
                                     !.bg_color = <<ChannelMean(fg_pos, cells, 3),
                                                    ChannelMean(fg_pos, cells, 2),
                                                    ChannelMean(fg_pos, cells, 1)>>,
                                     !.color_picked = TRUE]
                        ELSE [released EXCEPT !.color_picked = TRUE]
    /\ last' = NoStep("pick_up")
    /\ UNCHANGED <<fg_open, fg_len, bg_image, bg_is_video, bg_video_is_reversed,
                   reverse_enabled, bg_total_frames, bg_index, bg_frames>>
    /\ UNCHANGED <<ui_pc, ex_pc, frame_count, pending, load_status, thrVars, core>>

\* The tail of the picker's loop (chroma_key_gui.py:282-287): leave when a
\* color was picked, on Esc or when the window was closed.
PickWaitKey ==
    /\ ui_pc = "pick_wait"
    /\ \E esc \in BOOLEAN :
         IF pick.color_picked \/ esc
         THEN ui_pc' = "idle" /\ last' = NoStep("pick_end")
         ELSE ui_pc' = "pick_read" /\ last' = NoStep("pick_loop")
    /\ UNCHANGED <<guiVars, ex_pc, frame_count, pending, load_status, thrVars, core, pick>>

\* The application with a foreground video of m frames loaded (m = 0: none
\* is), nothing else done yet.
InitWithForeground ==
    /\ \E m \in 0..MaxFgFrames :
         fg_open = (m > 0) /\ fg_len = m
    /\ fg_pos = 0
    /\ bg_image = "None"
    /\ bg_is_video = FALSE
    /\ bg_video_is_reversed = FALSE
    /\ reverse_enabled = FALSE
    /\ bg_total_frames = 0 /\ bg_index = 0 /\ bg_frames = <<>>
    /\ ui_pc = "idle" /\ ex_pc = "none" /\ frame_count = 0
    /\ pending = 0 /\ load_status = "none"
    /\ last = NoStep("init")
    /\ ui_t = NoThread /\ ex_t = NoThread /\ ld = NoLoad
    /\ core = NoCore
    /\ pick = InitPick

NextPick ==
    \/ SliderEvent
    \/ PickColorFromVideo
    \/ PickRead
    \/ LButtonDown
    \/ MouseMove
    \/ LButtonUp
    \/ PickWaitKey

SpecPick == InitWithForeground /\ [][NextPick]_vars

\* ------------------------- SpecLoad: the load worker thread beside the UI thread
\* load_background_video (chroma_key_gui.py:335-341) on the UI thread: the
\* worker thread is started on a file that decodes to n frames, and decodes
\* it (lines 344-355).
LoadBackgroundVideoStart ==
    /\ ui_pc = "idle" /\ ld.pc = "none"
    /\ pending < MaxPending
    /\ \E n \in 0..MaxBgFrames : ld' = [pc |-> "decoded", temp |-> n]
    /\ last' = NoStep("load_bg_video_start")
    /\ UNCHANGED <<guiVars, ui_pc, ex_pc, frame_count, pending, load_status,
                   ui_t, ex_t, core, pick>>

\* if len(temp_frames) < 1: report, disable the checkbox, return
\* (chroma_key_gui.py:356-359).
L_CheckFrames ==
    /\ ld.pc = "decoded"
    /\ IF HasNoValidFrames(ld.temp)
       THEN /\ load_status' = "fail"
            /\ reverse_enabled' = FALSE
            /\ ld' = NoLoad
       ELSE /\ ld' = [ld EXCEPT !.pc = "w_frames"]
            /\ UNCHANGED <<load_status, reverse_enabled>>
    /\ UNCHANGED <<fg_open, fg_len, fg_pos, bg_image, bg_is_video, bg_video_is_reversed,
                   bg_total_frames, bg_index, bg_frames>>
    /\ UNCHANGED <<ui_pc, ex_pc, frame_count, pending, last, ui_t, ex_t, core, pick>>

\* self.bg_frames = temp_frames   (chroma_key_gui.py:361)
L_WriteFrames ==
    /\ ld.pc = "w_frames"
    /\ bg_frames' = DecodedFrames(ld.temp)
    /\ ld' = [ld EXCEPT !.pc = "w_total"]
    /\ UNCHANGED <<fg_open, fg_len, fg_pos, bg_image, bg_is_video, bg_video_is_reversed,
                   reverse_enabled, bg_total_frames, bg_index>>
    /\ UNCHANGED <<ctlVars, ui_t, ex_t, core, pick>>

\* self.bg_total_frames = len(self.bg_frames)   (chroma_key_gui.py:362)
L_WriteTotal ==
    /\ ld.pc = "w_total"
    /\ bg_total_frames' = Len(bg_frames)
    /\ ld' = [ld EXCEPT !.pc = "w_index"]
    /\ UNCHANGED <<fg_open, fg_len, fg_pos, bg_image, bg_is_video, bg_video_is_reversed,
                   reverse_enabled, bg_index, bg_frames>>
    /\ UNCHANGED <<ctlVars, ui_t, ex_t, core, pick>>

\* self.bg_index = 0   (chroma_key_gui.py:363)
L_WriteIndex ==
    /\ ld.pc = "w_index"
    /\ bg_index' = 0
    /\ ld' = [ld EXCEPT !.pc = "w_flag"]
    /\ UNCHANGED <<fg_open, fg_len, fg_pos, bg_image, bg_is_video, bg_video_is_reversed,
                   reverse_enabled, bg_total_frames, bg_frames>>
    /\ UNCHANGED <<ctlVars, ui_t, ex_t, core, pick>>

\* self.bg_is_video = True, the checkbox enabled, the callbacks queued
\* (chroma_key_gui.py:364-367).
L_WriteFlag ==
    /\ ld.pc = "w_flag"
    /\ bg_is_video' = TRUE
    /\ reverse_enabled' = TRUE
    /\ load_status' = "ok"
    /\ pending' = pending + 1
    /\ ld' = NoLoad
    /\ UNCHANGED <<fg_open, fg_len, fg_pos, bg_image, bg_video_is_reversed,
                   bg_total_frames, bg_index, bg_frames>>
    /\ UNCHANGED <<ui_pc, ex_pc, frame_count, last, ui_t, ex_t, core, pick>>

NextLoad ==
    \/ LoadBackgroundVideoStart
    \/ L_CheckFrames
    \/ L_WriteFrames
    \/ L_WriteTotal
    \/ L_WriteIndex
    \/ L_WriteFlag
    \/ T_SliderEvent
    \/ T_ToggleReverse
    \/ T_RunPending
    \/ T_UiStep

SpecLoad == InitWithForeground /\ [][NextLoad]_vars

\* --------------------------- SpecPlay: preview and export runs left undisturbed
\* The application with a foreground video and a background video loaded and
\* a direction selected, the capture position and the cursor wherever earlier
\* handlers left them.
InitLoaded ==
    /\ \E m \in 1..MaxFgFrames, p \in 0..MaxFgFrames :
         fg_open = TRUE /\ fg_len = m /\ fg_pos = p /\ p <= m
    /\ \E n \in 1..MaxBgFrames, i \in 0..(MaxBgFrames - 1) :
         /\ bg_frames = DecodedFrames(n) /\ bg_total_frames = n
         /\ bg_index = i /\ i < n
    /\ bg_image = "None"
    /\ bg_is_video = TRUE
    /\ bg_video_is_reversed \in BOOLEAN
    /\ reverse_enabled = TRUE
    /\ ui_pc = "idle" /\ ex_pc = "none" /\ frame_count = 0
    /\ pending = 0 /\ load_status = "ok"
    /\ last = NoStep("init")
    /\ ui_t = NoThread /\ ex_t = NoThread /\ ld = NoLoad
    /\ core = NoCore
    /\ pick = InitPick

\* The preview is started while no export runs.
PreviewStartAlone == ex_pc = "none" /\ PreviewStart

NextPlay ==
    \/ PreviewStartAlone
    \/ PreviewStep
    \/ ExportStart
    \/ ExportInit
    \/ ExportStep

SpecPlay == InitLoaded /\ [][NextPlay]_vars

\* ------------------------------------------------------ the cursor's claims
\* The cursor one position further in direction rev on a sequence of n frames.
OneFurther(idx, n, rev) == IF rev THEN (idx - 1) % n ELSE (idx + 1) % n

\* C1: every step on a frame sequence of length N >= 1 moves the cursor by
\* exactly one position with wrap-around, (old + 1) mod N forward and
\* (old - 1) mod N in reverse, and the frame the step uses is the one at the
\* new cursor.
C1_StepMovesByOneWithWrap ==
    [][last'.stepped =>
         /\ Len(bg_frames) >= 1
         /\ bg_frames' = bg_frames
         /\ bg_index' = OneFurther(bg_index, Len(bg_frames), bg_video_is_reversed')
         /\ last'.bg = [kind |-> "video", frame |-> bg_frames[bg_index' + 1]]]_vars

\* A reverse step has wrapped from cursor 0 to the last frame of a sequence
\* of at least two frames.
C1_Witness ==
    /\ last.stepped /\ bg_video_is_reversed
    /\ Len(bg_frames) >= 2
    /\ bg_index = Len(bg_frames) - 1
    /\ last.bg.frame = [video |-> Len(bg_frames), k |-> Len(bg_frames) - 1]

\* C2 as stated: the switch of direction leaves the cursor where it is, and
\* every step moves exactly one position in the direction selected when it
\* runs.
C2_SwitchLeavesCursor ==
    [][/\ last'.op = "toggle" => bg_index' = bg_index
       /\ last'.stepped =>
            bg_index' = OneFurther(bg_index, Len(bg_frames), bg_video_is_reversed')]_vars

\* C2 amended: the checkbox handler flips the direction and runs
\* update_preview; when that reads a foreground frame it is itself a step,
\* one position from the cursor in the newly selected direction, and else the
\* cursor stays; the frame list is never touched (no reset, no jump) and
\* every step moves exactly one position in the direction selected when it
\* runs.
C2_SwitchStepsOnceInNewDirection ==
    [][/\ last'.op = "toggle" =>
            /\ bg_video_is_reversed' = ~bg_video_is_reversed
            /\ bg_frames' = bg_frames /\ bg_total_frames' = bg_total_frames
            /\ last'.stepped = (fg_open /\ fg_pos < fg_len)
            /\ bg_index' = IF fg_open /\ fg_pos < fg_len
                           THEN OneFurther(bg_index, Len(bg_frames), ~bg_video_is_reversed)
                           ELSE bg_index
       /\ last'.stepped =>
            bg_index' = OneFurther(bg_index, Len(bg_frames), bg_video_is_reversed')]_vars

\* The checkbox was switched to reverse and its handler stepped from cursor 0
\* to the last frame.
C2_Witness ==
    /\ last.op = "toggle" /\ last.stepped
    /\ bg_video_is_reversed
    /\ Len(bg_frames) >= 2 /\ bg_index = Len(bg_frames) - 1

\* C3: a background video that decodes to zero frames is rejected at load
\* time: the load reports failure and leaves the frame list, the frame count,
\* the cursor and the image/video flag unchanged, so the video flag is never
\* set over an empty frame list and no step reads from one.
C3_EmptyVideoRejected ==
    /\ [][(last'.op = "load_bg_video" /\ last'.decoded = 0) =>
            /\ load_status' = "fail"
            /\ UNCHANGED <<bg_frames, bg_total_frames, bg_index, bg_is_video>>]_vars
    /\ [](bg_is_video => Len(bg_frames) >= 1 /\ bg_total_frames = Len(bg_frames))
    /\ [](last.stepped => last.bg.frame # IndexError)

\* A zero-frame load was rejected while an earlier video stayed loaded with
\* its cursor off 0.
C3_Witness ==
    /\ last.op = "load_bg_video" /\ last.decoded = 0
    /\ load_status = "fail"
    /\ bg_is_video /\ Len(bg_frames) >= 2 /\ bg_index > 0

\* ---------------------------------------------------- the compositor's claims
\* The compositor ran on equal-sized rasters F (uniform, every pixel the key
\* color) and B with tolerance, softness and spill suppression all 0.
UniformKeyCall ==
    /\ core.phase = "called" /\ core.src.kind = "image"
    /\ Len(core.src.img) = Len(core.frame)
    /\ core.tol = 0 /\ core.softness = 0 /\ core.spill = 0
    /\ core.frame = Uniform(core.key, Len(core.frame))

\* C5 as stated: with tolerance, softness and spill suppression 0 and a
\* uniform foreground equal to the key color, the output is the background
\* exactly, for every key color.
C5_UniformKeyGivesBackground == UniformKeyCall => core.out = core.src.img

\* C5 amended: the same, for every key color whose saturation and value are
\* both at least 50; for any other key color the output is the foreground.
C5_SaturatedKeyGivesBackground ==
    UniformKeyCall =>
        IF BGR2HSV(core.key)[2] >= SatValLow /\ BGR2HSV(core.key)[3] >= SatValLow
        THEN core.out = core.src.img
        ELSE core.out = core.frame

\* A uniform green foreground keyed on green was replaced by a background
\* that differs from it.
C5_Witness ==
    /\ UniformKeyCall /\ core.key = Green
    /\ core.src.img = <<Blue, Brick>>
    /\ core.out = <<Blue, Brick>>

\* C6: with softness 0 and spill suppression 0 every output pixel is exactly
\* the background pixel when the foreground pixel is key and exactly the
\* adjusted foreground pixel otherwise.
C6_BinaryMatte ==
    (core.phase \in {"called", "applied"} /\ core.composited
     /\ core.softness = 0 /\ core.spill = 0) =>
        \A i \in 1..Len(core.out) :
            core.out[i] = IF core.mask[i] = 255 THEN core.bg_in[i] ELSE core.fg_in[i]

\* An adjusted frame with one key pixel and one other pixel was composited
\* over an adjusted background with softness 0.
C6_Witness ==
    /\ core.phase = "applied" /\ core.composited
    /\ core.softness = 0 /\ core.spill = 0
    /\ core.fg_adj = Darker /\ core.bg_adj = Brighter
    /\ core.mask = <<255, 0>>
    /\ core.out[1] = core.bg_in[1] /\ core.out[2] = core.fg_in[2]
    /\ core.bg_in[1] # core.fg_in[1] /\ core.bg_in[2] # core.fg_in[2]

\* The key test of the specification for a pixel with hue, saturation and
\* value hsv: hue within keyHue - tol .. keyHue + tol clamped to the hue range
\* without wraparound, saturation and value at the threshold or above.
IsKeyAsSpecified(hsv, keyHue, tol) ==
    /\ Max(0, keyHue - tol) <= hsv[1] /\ hsv[1] <= Min(179, keyHue + tol)
    /\ hsv[2] >= SatValLow /\ hsv[3] >= SatValLow

\* C7: a foreground pixel is key exactly when its hue lies in
\* [keyHue - tolerance, keyHue + tolerance] clamped to the hue range with no
\* wraparound, from the range boundary or from 8-bit arithmetic, and its
\* saturation and value pass the threshold.
C7_KeyIffHueInClampedRange ==
    (core.phase \in {"called", "applied"} /\ core.composited) =>
        \A i \in 1..Len(core.mask) :
            (core.mask[i] = 255) <=>
                IsKeyAsSpecified(BGR2HSV(core.fg_in[i]), BGR2HSV(core.key)[1], core.tol)

\* clamp(c * contrast + brightness, 0, 255), the contrast in percent, the
\* product rounded as the code rounds it.
AdjustAsSpecified(c, adj) ==
    IF c * adj[1] + 100 * adj[2] < 0 THEN 0
    ELSE Min(255, RoundDiv(c * adj[1] + 100 * adj[2], 100))

\* C8: the adjustment of foreground and of background maps every channel
\* value c to clamp(c * contrast + brightness, 0, 255); a result below 0
\* becomes 0.
C8_AdjustClamps ==
    core.phase = "applied" =>
        /\ \A i \in 1..Len(core.frame), ch \in 1..3 :
              core.fg_in[i][ch] = AdjustAsSpecified(core.frame[i][ch], core.fg_adj)
        /\ core.composited =>
              \A i \in 1..Len(core.bg_in), ch \in 1..3 :
                  core.bg_in[i][ch] =
                      AdjustAsSpecified(Resize(core.src.img, Len(core.frame))[i][ch], core.bg_adj)

\* The output of the same call with spill suppression 0.
OutputWithoutSpill ==
    Composite(core.fg_in, core.bg_in, core.key, core.tol, core.softness, 0, core.promotion)

\* C9: for spill suppression s > 0 the green channel of every output pixel is
\* max(0, g0 - s), g0 being that pixel's green channel in the output with
\* spill suppression 0; the other two channels are those of that output.
C9_SpillReducesGreenEverywhere ==
    (core.phase \in {"called", "applied"} /\ core.composited /\ core.spill > 0) =>
        \A i \in 1..Len(core.out) :
            /\ core.out[i][2] = Max(0, OutputWithoutSpill[i][2] - core.spill)
            /\ core.out[i][1] = OutputWithoutSpill[i][1]
            /\ core.out[i][3] = OutputWithoutSpill[i][3]

\* A feathered composite with spill suppression on: one pixel is not on the
\* matte at all and has its green reduced, another has its green clamped at 0.
C9_Witness ==
    /\ core.phase = "called" /\ core.composited /\ core.spill > 0
    /\ \E i, j \in 1..Len(core.out) :
          /\ core.mask[i] = 0
          /\ OutputWithoutSpill[i][2] > core.spill
          /\ core.out[i][2] = OutputWithoutSpill[i][2] - core.spill
          /\ OutputWithoutSpill[j][2] > 0 /\ OutputWithoutSpill[j][2] < core.spill
          /\ core.out[j][2] = 0

\* A call of perform_chroma_key was made in this step.
CallMade == core'.phase = "called" /\ core'.calls = core.calls + 1

C4_StepsSerialized == ~(InStep(ui_pc) /\ InStep(ex_pc))

\* ------------------------------------------------- claims on frame production
\* C11: a step that produces an output frame leaves the cursor unchanged when
\* the active background is a static image or there is none; with no
\* background the compositor is bypassed (the frame is the adjusted
\* foreground alone), with an image it is not; the cursor changes in a frame
\* only when the active background is a frame sequence.
C11_CursorMovesOnlyOnSequence ==
    [][last'.fg >= 0 =>
         /\ ~UsesVideo(bg_is_video', bg_frames') =>
               /\ bg_index' = bg_index
               /\ last'.bg.kind = IF bg_image' = "None" THEN "none" ELSE "image"
               /\ ~last'.stepped
         /\ bg_index' # bg_index =>
               /\ UsesVideo(bg_is_video', bg_frames')
               /\ last'.bg.kind = "video"]_vars

\* A slider callback produced a frame over a static image that was loaded
\* after a video whose cursor had left 0: the cursor is still there.
C11_Witness ==
    /\ last.op = "slider" /\ last.fg >= 0
    /\ last.bg.kind = "image" /\ ~bg_is_video
    /\ Len(bg_frames) >= 2 /\ bg_index > 0

\* C12: the key color changes only in the button-up callback of a region
\* pick whose frame read succeeded and whose rectangle has non-zero width and
\* height; a button-up over a rectangle of zero width or zero height, or
\* whose frame read fails, leaves the key color unchanged and marks the color
\* as picked, and once the color is marked as picked the picker's loop can
\* only leave.
C12_KeyChangesOnlyByRegionPick ==
    [][/\ pick'.bg_color # pick.bg_color =>
            /\ last'.op = "pick_up"
            /\ fg_pos < fg_len
            /\ pick'.x0 # pick'.x1 /\ pick'.y0 # pick'.y1
       /\ (/\ last'.op = "pick_up"
           /\ (pick'.x0 = pick'.x1 \/ pick'.y0 = pick'.y1 \/ fg_pos >= fg_len)) =>
            /\ pick'.bg_color = pick.bg_color
            /\ pick'.color_picked
       /\ (ui_pc = "pick_wait" /\ pick.color_picked /\ ui_pc' # ui_pc) =>
            ui_pc' = "idle"]_vars

\* A picking session has ended on a pick of zero height and non-zero width,
\* with the key color still the initial one.
C12_Witness ==
    /\ last.op = "pick_end" /\ ui_pc = "idle"
    /\ pick.color_picked
    /\ pick.y0 = pick.y1 /\ pick.x0 # pick.x1
    /\ pick.bg_color = InitPick.bg_color

\* C13: whenever a step is about to read bg_frames[bg_index], the cursor is
\* within 0..len(bg_frames)-1 and bg_total_frames equals len(bg_frames), the
\* load worker thread replacing the three fields meanwhile included.
C13_StepReadsInRange ==
    (ui_pc = "t_read" \/ ex_pc = "t_read") =>
        /\ 0 <= bg_index /\ bg_index < Len(bg_frames)
        /\ bg_total_frames = Len(bg_frames)

\* The cursor after n steps from idx.
RECURSIVE StepsFrom(_, _, _, _)
StepsFrom(idx, total, rev, n) ==
    IF n = 0 THEN idx ELSE StepsFrom(StepIndex(idx, total, rev), total, rev, n - 1)

\* The background frame index the preview pairs foreground frame k with.
PreviewPairing(k) ==
    StepsFrom(PreviewStartIndex(bg_video_is_reversed, bg_total_frames),
              bg_total_frames, bg_video_is_reversed, k + 1)

\* C14: on the same background sequence and with the same direction, export
\* pairs the k-th foreground frame with the background frame index that the
\* preview pairs it with, for every k, forward and reversed.
C14_ExportPairsAsPreview ==
    (last.stepped /\ last.op \in {"preview", "export"}) =>
        last.bg.frame = bg_frames[PreviewPairing(last.fg) + 1]

\* C15: an export over a foreground video of M frames writes one output
\* frame per foreground frame, in order from frame 0 (the n-th frame written
\* is made from foreground frame n - 1), and has written exactly M frames
\* when it ends, slider and checkbox events handled meanwhile included.
C15_ExportWritesEveryFrame ==
    /\ last.op = "export" => last.fg = frame_count - 1
    /\ last.op = "export_end" => frame_count = fg_len

=============================================================================
